---- MODULE Spec2Model ----
(***************************************************************************)
(* Model of the mail index of src/lib-index/mail-index.c: the index file   *)
(* (header, record array, UID hash), the per-process handle (MailIndex)    *)
(* and the operations append, expunge, update_flags, lookup and set_lock.  *)
(***************************************************************************)
EXTENDS Integers, Sequences, FiniteSets

\* ------------------------------------------------------------------------
\* Bounds of the model
\* ------------------------------------------------------------------------
\* number of mail_index_append calls in one behaviour
MaxAppends == 4
\* the same, in the behaviours that vary the message flags
MaxFlagAppends == 3
\* number of mail_index_update_flags calls in one behaviour
MaxUpdates == 3
\* unsigned int arithmetic is done modulo UintModulus (the width is reduced)
UintModulus == 64
\* the guard band below INT_MAX of mail_index_open_init, in that width
UidGuardBand == 2
\* largest indexid: the index is rebuilt at most MaxIndexId - 1 times
MaxIndexId == 2
\* number of mail_index_append calls when two processes share the index
MaxSharedAppends == 2

\* ------------------------------------------------------------------------
\* Program constants
\* ------------------------------------------------------------------------
\* sizeof(MailIndexHeader), sizeof(MailIndexRecord), in model bytes
HeaderSize == 5
RecordSize == 2
\* mail_index_lookup_uid_range: ranges shorter than this are probed entirely
HashProbeAll == 10
\* mail_index_lookup_uid_range: otherwise first_uid .. first_uid + this
HashProbeSpan == 4

MAIL_SEEN == "SEEN"
MAIL_DELETED == "DELETED"
MailFlags == SUBSET {MAIL_SEEN, MAIL_DELETED}

MAIL_INDEX_FLAG_REBUILD == "REBUILD"
MAIL_INDEX_FLAG_FSCK == "FSCK"
MAIL_INDEX_FLAG_COMPRESS == "COMPRESS"
MAIL_INDEX_FLAG_CACHE_FIELDS == "CACHE_FIELDS"

MAIL_LOCK_UNLOCK == "UNLOCK"
MAIL_LOCK_SHARED == "SHARED"
MAIL_LOCK_EXCLUSIVE == "EXCLUSIVE"
MailLockType == {MAIL_LOCK_UNLOCK, MAIL_LOCK_SHARED, MAIL_LOCK_EXCLUSIVE}

F_UNLCK == "F_UNLCK"
F_RDLCK == "F_RDLCK"
F_WRLCK == "F_WRLCK"

FIELD_TYPE_LOCATION == "LOCATION"
FIELD_TYPE_ENVELOPE == "ENVELOPE"

\* a record pointer is the byte offset from mmap_base; NULL is 0
NULL == 0

Handles == {1, 2}

\* no internal call set_lock(EXCLUSIVE) was made yet
NoCall == [site |-> "none", from |-> MAIL_LOCK_UNLOCK]

VARIABLES
    header,     \* MailIndexHeader of the index file (shared through the mapping)
    records,    \* the record array of the index file, in file order
    hash,       \* the UID hash: set of [uid, pos]
    index,      \* index[h]: the MailIndex handle of process h
    crashed,    \* processes killed by a fault on a stale mapping
    nappends,   \* number of mail_index_append calls so far
    nupdates,   \* number of mail_index_update_flags calls so far
    flock,      \* flock[h]: the fcntl lock process h holds on the index file
    stack,      \* stack[h]: the frames of the call process h is suspended in
    ret,        \* ret[h]: what the last call of process h returned
    excl_call,  \* the last internal call set_lock(EXCLUSIVE) made:
                \* [site, from], from being the handle's lock_type then
    dir_lock,   \* the process that holds the directory lock, or NULL
    linked,     \* whether the index file exists under its final name
    ooc,        \* ooc[h]: where process h is in mail_index_open_or_create
    extra       \* bytes of the index file after its last whole record

fileVars == <<header, records, hash>>
dirVars == <<dir_lock, linked, ooc>>
lockVars == <<flock, stack, ret, excl_call, dir_lock, linked, ooc>>
vars == <<header, records, hash, index, crashed, nappends, nupdates,
          flock, stack, ret, excl_call, dir_lock, linked, ooc, extra>>

\* ------------------------------------------------------------------------
\* Unsigned arithmetic and the position macros
\* ------------------------------------------------------------------------
UInc(x) == (x + 1) % UintModulus
UDec(x) == (x + UintModulus - 1) % UintModulus

\* INDEX_POSITION_INDEX(pos)
INDEX_POSITION_INDEX(pos) == (pos - HeaderSize) \div RecordSize
\* byte offset of the record with 0-based index i
RecordPos(i) == HeaderSize + i * RecordSize
\* length of the index file
FileLength(recs) == HeaderSize + Len(recs) * RecordSize

\* the record a pointer designates; memory of the mapping past the end of
\* the file reads as zero when it does not fault
InFile(recs, p) == p >= HeaderSize /\ p < FileLength(recs)
RecAt(recs, p) ==
    IF InFile(recs, p) THEN recs[INDEX_POSITION_INDEX(p) + 1]
    ELSE [uid |-> 0, msg_flags |-> {}]

LivePositions(recs) ==
    {RecordPos(i - 1) : i \in {j \in 1..Len(recs) : recs[j].uid # 0}}
TombPositions(recs) ==
    {RecordPos(i - 1) : i \in {j \in 1..Len(recs) : recs[j].uid = 0}}
\* the 1-based position of the live record at p in the live subsequence
TrueSeq(recs, p) == Cardinality({q \in LivePositions(recs) : q <= p})

\* ------------------------------------------------------------------------
\* UID hash (mail-hash.c): uid -> offset, 0 when absent
\* ------------------------------------------------------------------------
mail_hash_lookup_uid(hs, uid) ==
    IF \E e \in hs : e.uid = uid
    THEN (CHOOSE e \in hs : e.uid = uid).pos
    ELSE 0

mail_hash_update(hs, uid, pos) ==
    {e \in hs : e.uid # uid} \cup
    (IF pos = 0 THEN {} ELSE {[uid |-> uid, pos |-> pos]})

\* ------------------------------------------------------------------------
\* Flag bookkeeping
\* ------------------------------------------------------------------------
\* mutant of index_mark_flag_changes: seen -> unseen never lowers the
\* unseen lowwater of an index that has unseen messages
index_mark_flag_changes_nolower(hd, uid, old_flags, new_flags) ==
    IF MAIL_SEEN \notin old_flags /\ MAIL_SEEN \in new_flags
    THEN [hd EXCEPT !.seen_messages_count = UInc(@)]
    ELSE IF MAIL_SEEN \in old_flags /\ MAIL_SEEN \notin new_flags
    THEN [hd EXCEPT
            !.first_unseen_uid_lowwater =
                IF hd.seen_messages_count = hd.messages_count THEN uid ELSE @,
            !.seen_messages_count = UDec(@)]
    ELSE IF MAIL_DELETED \notin old_flags /\ MAIL_DELETED \in new_flags
    THEN [hd EXCEPT
            !.deleted_messages_count = UInc(@),
            !.first_deleted_uid_lowwater =
                IF UInc(hd.deleted_messages_count) = 1 THEN uid
                ELSE IF uid < @ THEN uid ELSE @]
    ELSE IF MAIL_DELETED \in old_flags /\ MAIL_DELETED \notin new_flags
    THEN [hd EXCEPT !.deleted_messages_count = UDec(@)]
    ELSE hd

\* index_mark_flag_changes(index, rec, old_flags, new_flags); uid is rec->uid
\* at the time of the call
index_mark_flag_changes(hd, uid, old_flags, new_flags) ==
    IF MAIL_SEEN \notin old_flags /\ MAIL_SEEN \in new_flags
    THEN [hd EXCEPT !.seen_messages_count = UInc(@)]
    ELSE IF MAIL_SEEN \in old_flags /\ MAIL_SEEN \notin new_flags
    THEN [hd EXCEPT
            !.first_unseen_uid_lowwater =
                IF hd.seen_messages_count = hd.messages_count THEN uid
                ELSE IF uid < @ THEN uid ELSE @,
            !.seen_messages_count = UDec(@)]
    ELSE IF MAIL_DELETED \notin old_flags /\ MAIL_DELETED \in new_flags
    THEN [hd EXCEPT
            !.deleted_messages_count = UInc(@),
            !.first_deleted_uid_lowwater =
                IF UInc(hd.deleted_messages_count) = 1 THEN uid
                ELSE IF uid < @ THEN uid ELSE @]
    ELSE IF MAIL_DELETED \in old_flags /\ MAIL_DELETED \notin new_flags
    THEN [hd EXCEPT !.deleted_messages_count = UDec(@)]
    ELSE hd

\* ------------------------------------------------------------------------
\* Lookup
\* ------------------------------------------------------------------------
RECURSIVE LookupWalk(_, _, _, _, _)
\* the loop of mail_index_lookup_mapped: <<rec, read past the file>>
LookupWalk(recs, seq, rec, lookup_seq, end_rec) ==
    IF seq < lookup_seq /\ rec < end_rec
    THEN LET r == LookupWalk(recs,
                             IF RecAt(recs, rec).uid # 0 THEN seq + 1 ELSE seq,
                             rec + RecordSize, lookup_seq, end_rec)
         IN  <<r[1], r[2] \/ ~InFile(recs, rec)>>
    ELSE <<rec, FALSE>>

\* mail_index_lookup_mapped: rec is the pointer returned, corrupted tells
\* INDEX_MARK_CORRUPTED was reached, oob tells memory past the end of the
\* file was read
mail_index_lookup_mapped(ix, hd, recs, lookup_seq) ==
    LET seekpos == HeaderSize + (lookup_seq - 1) * RecordSize
        cached == lookup_seq = ix.last_lookup_seq /\ ix.last_lookup # NULL
    IN
    IF cached /\ RecAt(recs, ix.last_lookup).uid # 0
    THEN [rec |-> ix.last_lookup, corrupted |-> FALSE, oob |-> FALSE]
    ELSE LET oob0 == cached /\ ~InFile(recs, ix.last_lookup) IN
    IF seekpos > ix.mmap_length - RecordSize
    THEN [rec |-> NULL, corrupted |-> FALSE, oob |-> oob0]
    ELSE IF hd.first_hole_position = 0 \/ hd.first_hole_position > seekpos
    THEN IF RecAt(recs, seekpos).uid = 0
         THEN [rec |-> NULL, corrupted |-> TRUE,
               oob |-> oob0 \/ ~InFile(recs, seekpos)]
         ELSE [rec |-> seekpos, corrupted |-> FALSE, oob |-> oob0]
    ELSE LET fromLast == lookup_seq > ix.last_lookup_seq /\ ix.last_lookup # NULL
             seq0 == INDEX_POSITION_INDEX(hd.first_hole_position + 1) + 1
             seq == IF fromLast THEN ix.last_lookup_seq ELSE seq0
             rec == IF fromLast THEN ix.last_lookup
                    ELSE RecordPos(seq0 - 1 + hd.first_hole_records)
             w == LookupWalk(recs, seq, rec, lookup_seq, ix.mmap_length)
         IN  [rec |-> w[1], corrupted |-> FALSE, oob |-> oob0 \/ w[2]]

RECURSIVE SequenceWalk(_, _, _, _)
\* the loop of mail_index_get_sequence
SequenceWalk(recs, seekrec, rec, seq) ==
    IF seekrec >= rec THEN seq
    ELSE SequenceWalk(recs, seekrec + RecordSize, rec,
                      IF RecAt(recs, seekrec).uid # 0 THEN seq + 1 ELSE seq)

\* mail_index_get_sequence, for a record at or after the mapping's start
mail_index_get_sequence(ix, hd, recs, rec) ==
    IF rec = ix.last_lookup THEN ix.last_lookup_seq
    ELSE IF hd.first_hole_position = 0
    THEN INDEX_POSITION_INDEX(rec) + 1
    ELSE IF rec < hd.first_hole_position
    THEN INDEX_POSITION_INDEX(rec) + 1
    ELSE SequenceWalk(recs,
                      hd.first_hole_position +
                          hd.first_hole_records * RecordSize,
                      rec,
                      INDEX_POSITION_INDEX(hd.first_hole_position) + 1)

RECURSIVE HashProbe(_, _, _)
\* the hash loop of mail_index_lookup_uid_range: first hit, or 0
HashProbe(hs, uid, last_try_uid) ==
    IF uid > last_try_uid THEN 0
    ELSE IF mail_hash_lookup_uid(hs, uid) # 0
    THEN mail_hash_lookup_uid(hs, uid)
    ELSE HashProbe(hs, uid + 1, last_try_uid)

RECURSIVE UidScan(_, _, _, _, _)
\* the fallback loop of mail_index_lookup_uid_range
UidScan(recs, rec, end_rec, first_uid, last_uid) ==
    IF rec >= end_rec THEN NULL
    ELSE LET uid == RecAt(recs, rec).uid IN
         IF uid # 0 /\ uid > last_uid THEN NULL
         ELSE IF uid # 0 /\ uid >= first_uid THEN rec
         ELSE UidScan(recs, rec + RecordSize, end_rec, first_uid, last_uid)

\* mutant of mail_index_lookup_uid_range: no fallback to the linear scan
mail_index_lookup_uid_range_noscan(ix, recs, hs, first_uid, last_uid) ==
    IF first_uid > last_uid THEN NULL
    ELSE LET last_try_uid ==
                 IF last_uid - first_uid < HashProbeAll THEN last_uid
                 ELSE first_uid + HashProbeSpan
         IN  HashProbe(hs, first_uid, last_try_uid)

\* mail_index_lookup_uid_range: the record pointer returned, or NULL
mail_index_lookup_uid_range(ix, recs, hs, first_uid, last_uid) ==
    IF first_uid > last_uid THEN NULL
    ELSE LET last_try_uid ==
                 IF last_uid - first_uid < HashProbeAll THEN last_uid
                 ELSE first_uid + HashProbeSpan
             pos == HashProbe(hs, first_uid, last_try_uid)
         IN  IF pos # 0 THEN pos
             ELSE IF last_try_uid = last_uid THEN NULL
             ELSE UidScan(recs, HeaderSize, ix.mmap_length,
                          first_uid, last_uid)

\* ------------------------------------------------------------------------
\* Initial states
\* ------------------------------------------------------------------------
\* mail_index_init_header, after the initial rebuild has cleared REBUILD
InitHeader ==
    [flags |-> {},
     cache_fields |-> {FIELD_TYPE_LOCATION},
     indexid |-> 1,
     next_uid |-> 1,
     last_nonrecent_uid |-> 0,
     messages_count |-> 0,
     seen_messages_count |-> 0,
     deleted_messages_count |-> 0,
     first_unseen_uid_lowwater |-> 0,
     first_deleted_uid_lowwater |-> 0,
     first_hole_position |-> 0,
     first_hole_records |-> 0]

\* a handle after open, unlocked; fd tells fd != -1, header_set tells
\* header != NULL
OpenedIndex ==
    [opened |-> TRUE,
     fd |-> TRUE,
     lock_type |-> MAIL_LOCK_UNLOCK,
     updating |-> FALSE,
     inconsistent |-> FALSE,
     dirty_mmap |-> FALSE,
     mmap_length |-> HeaderSize,
     header_set |-> TRUE,
     indexid |-> 1,
     set_flags |-> {},
     set_cache_fields |-> {},
     last_lookup |-> NULL,
     last_lookup_seq |-> 0]

\* an empty index whose next uid is n, handle 1 holding the exclusive lock:
\* freshly created for n = 1, otherwise after n - 1 appends that failed or
\* whose records were all expunged again
InitWith(n) ==
    /\ header = [InitHeader EXCEPT !.flags = {MAIL_INDEX_FLAG_FSCK},
                                   !.next_uid = n]
    /\ records = <<>>
    /\ hash = {}
    /\ index = [h \in Handles |->
                  IF h = 1
                  THEN [OpenedIndex EXCEPT !.lock_type = MAIL_LOCK_EXCLUSIVE]
                  ELSE OpenedIndex]
    /\ crashed = {}
    /\ nappends = 0
    /\ nupdates = 0
    /\ flock = [h \in Handles |-> IF h = 1 THEN F_WRLCK ELSE F_UNLCK]
    /\ stack = [h \in Handles |-> <<>>]
    /\ ret = [h \in Handles |-> TRUE]
    /\ excl_call = NoCall
    /\ dir_lock = NULL
    /\ linked = TRUE
    /\ ooc = [h \in Handles |-> "idle"]
    /\ extra = 0

InitFresh == InitWith(1)
\* fresh, or old enough for a uid range to start HashProbeSpan + 1 below the
\* first record
Init == InitWith(1) \/ InitWith(HashProbeSpan + 2)
\* two appends below the ceiling of unsigned int
InitCeiling == InitWith(UintModulus - 2)

\* ------------------------------------------------------------------------
\* Operations under the exclusive lock
\* ------------------------------------------------------------------------
\* mmap_update with dirty_mmap set: map the whole file
mmap_update(ix, recs) ==
    IF ~ix.dirty_mmap THEN ix
    ELSE [ix EXCEPT !.mmap_length = FileLength(recs), !.dirty_mmap = FALSE]

\* mmap_update, "partial write or corrupted - truncate the file to valid
\* length": the bytes left after the last whole record
mmap_update_extra(ix, ex) == IF ix.dirty_mmap THEN 0 ELSE ex

\* mail_index_append; io is the outcome of lseek and write_full, "partial"
\* being a write_full that fails after it wrote a part of the record.  The
\* record of a successful append is followed for files of whole records.
mail_index_append(h, msg_flags, io) ==
    /\ h \notin crashed
    /\ stack[h] = <<>>
    /\ UNCHANGED lockVars
    /\ index[h].lock_type = MAIL_LOCK_EXCLUSIVE
    /\ nappends' = nappends + 1
    /\ UNCHANGED nupdates
    /\ LET uid == header.next_uid
           pos == FileLength(records)
           hd1 == [header EXCEPT !.next_uid = UInc(@)]
           hd2 == [hd1 EXCEPT !.messages_count = UInc(@)]
       IN  IF io # "ok"
           THEN /\ header' = hd1
                /\ IF io = "partial"
                   THEN extra' \in 1..(RecordSize - 1)
                   ELSE UNCHANGED extra
                /\ UNCHANGED <<records, hash, index, crashed>>
           ELSE /\ UNCHANGED extra
                /\ records' = Append(records,
                                     [uid |-> uid, msg_flags |-> msg_flags])
                /\ header' = index_mark_flag_changes(hd2, uid, {}, msg_flags)
                /\ hash' = mail_hash_update(hash, uid, pos)
                /\ index' = [index EXCEPT ![h] =
                       mmap_update([@ EXCEPT !.dirty_mmap = TRUE], records')]
                /\ UNCHANGED crashed

\* update_first_hole_records: the grown first_hole_records
RECURSIVE update_first_hole_records(_, _, _, _)
update_first_hole_records(recs, pos, n, end_rec) ==
    LET rec == pos + n * RecordSize IN
    IF rec # end_rec /\ RecAt(recs, rec).uid = 0
    THEN update_first_hole_records(recs, pos, n + 1, end_rec)
    ELSE n

\* mutant of ExpungeHole: a hole extended to the left keeps its position
ExpungeHole_left(hd, ix, recs, pos) ==
    IF hd.first_hole_position = 0
    THEN [hd |-> [hd EXCEPT !.first_hole_position = pos,
                            !.first_hole_records = 1],
          set_flags |-> ix.set_flags]
    ELSE IF hd.first_hole_position - RecordSize = pos
    THEN [hd |-> [hd EXCEPT !.first_hole_records = @ + 1],
          set_flags |-> ix.set_flags]
    ELSE IF hd.first_hole_position + hd.first_hole_records * RecordSize = pos
    THEN [hd |-> [hd EXCEPT !.first_hole_records =
                      update_first_hole_records(recs, hd.first_hole_position,
                                                @ + 1, ix.mmap_length)],
          set_flags |-> ix.set_flags]
    ELSE [hd |-> IF hd.first_hole_position > pos
                 THEN [hd EXCEPT !.first_hole_position = pos,
                                 !.first_hole_records = 1]
                 ELSE hd,
          set_flags |-> ix.set_flags \cup {MAIL_INDEX_FLAG_COMPRESS}]

\* the hole descriptor and set_flags after expunging the record at pos
ExpungeHole(hd, ix, recs, pos) ==
    IF hd.first_hole_position = 0
    THEN [hd |-> [hd EXCEPT !.first_hole_position = pos,
                            !.first_hole_records = 1],
          set_flags |-> ix.set_flags]
    ELSE IF hd.first_hole_position - RecordSize = pos
    THEN [hd |-> [hd EXCEPT !.first_hole_position = @ - RecordSize,
                            !.first_hole_records = @ + 1],
          set_flags |-> ix.set_flags]
    ELSE IF hd.first_hole_position + hd.first_hole_records * RecordSize = pos
    THEN [hd |-> [hd EXCEPT !.first_hole_records =
                      update_first_hole_records(recs, hd.first_hole_position,
                                                @ + 1, ix.mmap_length)],
          set_flags |-> ix.set_flags]
    ELSE [hd |-> IF hd.first_hole_position > pos
                 THEN [hd EXCEPT !.first_hole_position = pos,
                                 !.first_hole_records = 1]
                 ELSE hd,
          set_flags |-> ix.set_flags \cup {MAIL_INDEX_FLAG_COMPRESS}]

\* mutant of ExpungeCounts: messages_count is left alone
ExpungeCounts_keep(hd, old_flags) ==
    index_mark_flag_changes(hd, 0, old_flags, {})

\* mail_index_expunge, "update message counts"; rec->uid is 0 by now
ExpungeCounts(hd, old_flags) ==
    index_mark_flag_changes([hd EXCEPT !.messages_count = UDec(@)],
                            0, old_flags, {})

\* mail_index_truncate: the header after it (the file is cut by the caller)
mail_index_truncate(hd) ==
    [hd EXCEPT !.first_hole_position = 0, !.first_hole_records = 0]

\* mail_index_expunge of the live record at rec; seq is its sequence or 0
mail_index_expunge(h, rec, seq, modlog_ok) ==
    /\ h \notin crashed
    /\ stack[h] = <<>>
    /\ UNCHANGED lockVars
    /\ index[h].lock_type = MAIL_LOCK_EXCLUSIVE
    /\ rec \in LivePositions(records)
    /\ rec + RecordSize <= index[h].mmap_length
    /\ seq \in {0, TrueSeq(records, rec)}
    /\ IF seq # 0 /\ ~modlog_ok
       THEN UNCHANGED vars
       ELSE LET i == INDEX_POSITION_INDEX(rec) + 1
                old == records[i]
                recs1 == [records EXCEPT ![i].uid = 0]
                ix == index[h]
                ix1 == IF seq # 0 /\ seq = ix.last_lookup_seq
                       THEN [ix EXCEPT !.last_lookup = NULL]
                       ELSE IF seq # 0 /\ seq < ix.last_lookup_seq
                       THEN [ix EXCEPT !.last_lookup_seq = @ - 1]
                       ELSE ix
                hole == ExpungeHole(header, ix1, recs1, rec)
                hd2 == ExpungeCounts(hole.hd, old.msg_flags)
            IN  /\ hash' = mail_hash_update(hash, old.uid, 0)
                /\ index' = [index EXCEPT ![h] =
                                [ix1 EXCEPT !.set_flags = hole.set_flags]]
                /\ IF hd2.messages_count = 0
                   THEN /\ header' = mail_index_truncate(hd2)
                        /\ records' = <<>>
                        /\ extra' = 0
                   ELSE /\ header' = hd2
                        /\ records' = recs1
                        /\ UNCHANGED extra
                /\ UNCHANGED <<crashed, nappends, nupdates>>

\* mail_index_update_flags of the live record at rec
mail_index_update_flags(h, rec, flags, modlog_ok) ==
    /\ h \notin crashed
    /\ stack[h] = <<>>
    /\ UNCHANGED lockVars
    /\ UNCHANGED extra
    /\ index[h].lock_type = MAIL_LOCK_EXCLUSIVE
    /\ rec \in LivePositions(records)
    /\ rec + RecordSize <= index[h].mmap_length
    /\ nupdates' = nupdates + 1
    /\ LET i == INDEX_POSITION_INDEX(rec) + 1
           old == records[i]
       IN  IF flags = old.msg_flags
           THEN UNCHANGED <<header, records, hash, index, crashed, nappends>>
           ELSE /\ header' = index_mark_flag_changes(header, old.uid,
                                                     old.msg_flags, flags)
                /\ records' = [records EXCEPT ![i].msg_flags = flags]
                /\ UNCHANGED <<hash, index, crashed, nappends>>

\* mail_index_lookup(index, seq); fault tells whether a read past the end
\* of the file kills the process or reads zero
mail_index_lookup(h, seq, fault) ==
    /\ h \notin crashed
    /\ stack[h] = <<>>
    /\ UNCHANGED lockVars
    /\ extra' = mmap_update_extra(index[h], extra)
    /\ index[h].lock_type # MAIL_LOCK_UNLOCK
    /\ seq > 0
    /\ LET ix == mmap_update(index[h], records)
           r == mail_index_lookup_mapped(ix, header, records, seq)
       IN  IF r.oob /\ fault
           THEN /\ crashed' = crashed \cup {h}
                /\ UNCHANGED <<header, records, hash, index, nappends, nupdates>>
           ELSE /\ index' = [index EXCEPT ![h] =
                       [ix EXCEPT
                          !.last_lookup = r.rec,
                          !.last_lookup_seq = seq,
                          !.set_flags =
                             IF r.corrupted
                             THEN @ \cup {MAIL_INDEX_FLAG_REBUILD} ELSE @]]
                /\ UNCHANGED <<header, records, hash, crashed, nappends, nupdates>>

\* ------------------------------------------------------------------------
\* Locking: mail_index_set_lock as a machine of frames.  A call runs until
\* it returns or reaches a blocking fcntl(F_SETLKW); the frame on top of the
\* stack is where the process is.
\* ------------------------------------------------------------------------
MAIL_LOCK_TO_FLOCK(lock_type) ==
    IF lock_type = MAIL_LOCK_UNLOCK THEN F_UNLCK
    ELSE IF lock_type = MAIL_LOCK_SHARED THEN F_RDLCK ELSE F_WRLCK

\* whether the kernel grants process h the lock l_type on the whole file
Grantable(fls, h, l_type) ==
    IF l_type = F_UNLCK THEN TRUE
    ELSE IF l_type = F_RDLCK
    THEN \A g \in Handles \ {h} : fls[g] # F_WRLCK
    ELSE \A g \in Handles \ {h} : fls[g] = F_UNLCK

\* the header fields mail_index_open_file keeps in its local copy hdr
NoHdr == [flags |-> {}, next_uid |-> 0, last_nonrecent_uid |-> 0]
HdrCopy(hd) ==
    [flags |-> hd.flags, next_uid |-> hd.next_uid,
     last_nonrecent_uid |-> hd.last_nonrecent_uid]

\* a frame: pc is the place in the code, lt the lock_type argument of the
\* set_lock call, ur/hdr/failed the locals of open_file and open_init
Frame(pc, lt) ==
    [pc |-> pc, lt |-> lt, ur |-> FALSE, hdr |-> NoHdr, failed |-> FALSE]

\* the state a call of process h works on
StateOf(h) ==
    [hd |-> header, recs |-> records, hs |-> hash, ix |-> index[h],
     fl |-> flock[h], stk |-> stack[h], ret |-> ret[h],
     call |-> excl_call, ex |-> extra, aborted |-> FALSE]

Top(st) == st.stk[Len(st.stk)]
Pop(st) == [st EXCEPT !.stk = SubSeq(@, 1, Len(@) - 1)]
Push(st, f) == [st EXCEPT !.stk = Append(@, f)]
\* return r to the caller
Return(st, r) == [Pop(st) EXCEPT !.ret = r]
\* continue the current function at f
Goto(st, f) == Push(Pop(st), f)
\* call set_lock(lt), continuing at cont afterwards
CallSetLock(st, cont, lt) == Push(Goto(st, cont), Frame("sl_enter", lt))
\* i_assert failed: the process aborts
Abort(st) == [st EXCEPT !.aborted = TRUE]
\* remember an internal call of set_lock(lt) made at site
NoteCall(st, site, lt) ==
    IF lt = MAIL_LOCK_EXCLUSIVE
    THEN [st EXCEPT !.call = [site |-> site, from |-> st.ix.lock_type]]
    ELSE st

\* mutant of mail_index_update_header_changes: the pending flags are
\* cleared without being written to the header
mail_index_update_header_changes_drop(st) ==
    IF st.ix.lock_type # MAIL_LOCK_EXCLUSIVE THEN Abort(st)
    ELSE [st EXCEPT
            !.ix.set_flags = {},
            !.hd.cache_fields =
                IF st.ix.set_cache_fields # {} THEN st.ix.set_cache_fields
                ELSE @,
            !.ix.set_cache_fields = {}]

\* mail_index_update_header_changes
mail_index_update_header_changes(st) ==
    IF st.ix.lock_type # MAIL_LOCK_EXCLUSIVE THEN Abort(st)
    ELSE [st EXCEPT
            !.hd.flags = @ \cup st.ix.set_flags,
            !.ix.set_flags = {},
            !.hd.cache_fields =
                IF st.ix.set_cache_fields # {} THEN st.ix.set_cache_fields
                ELSE @,
            !.ix.set_cache_fields = {}]

\* index->rebuild and mail_hash_rebuild when they succeed: the live records
\* are kept, the counters and the hash recomputed, the index gets a new
\* indexid and REBUILD is cleared
RebuiltRecords(recs) == SelectSeq(recs, LAMBDA r : r.uid # 0)
mail_index_rebuild_all(st) ==
    LET recs == RebuiltRecords(st.recs)
        n == Len(recs)
    IN  [st EXCEPT
           !.recs = recs,
           !.hs = {[uid |-> recs[i].uid, pos |-> RecordPos(i - 1)] :
                      i \in 1..n},
           !.hd.flags = @ \ {MAIL_INDEX_FLAG_REBUILD},
           !.hd.indexid = @ + 1,
           !.hd.messages_count = n,
           !.hd.seen_messages_count =
               Cardinality({i \in 1..n : MAIL_SEEN \in recs[i].msg_flags}),
           !.hd.deleted_messages_count =
               Cardinality({i \in 1..n : MAIL_DELETED \in recs[i].msg_flags}),
           !.hd.first_unseen_uid_lowwater = 0,
           !.hd.first_deleted_uid_lowwater = 0,
           !.hd.first_hole_position = 0,
           !.hd.first_hole_records = 0,
           !.ix.indexid = st.hd.indexid + 1,
           !.ix.dirty_mmap = TRUE,
           !.ex = 0]

\* index->sync: it picks up the changes that the modification log and the
\* hash hold, which are not part of this model, and leaves the mapping of
\* the index file and dirty_mmap alone
index_sync(st) == st

\* mutant of SetLockEnter: an inconsistent handle is not turned away
SetLockEnter_anyway(st, lock_type) ==
    IF st.ix.lock_type = lock_type THEN Return(st, TRUE)
    ELSE IF lock_type = MAIL_LOCK_EXCLUSIVE
            /\ st.ix.lock_type = MAIL_LOCK_SHARED
    THEN Abort(st)
    ELSE LET st1 ==
                 IF st.ix.lock_type = MAIL_LOCK_EXCLUSIVE
                 THEN mail_index_update_header_changes(
                          [st EXCEPT !.hd.flags = @ \ {MAIL_INDEX_FLAG_FSCK}])
                 ELSE st
         IN  IF lock_type # MAIL_LOCK_UNLOCK
                /\ st.ix.lock_type = MAIL_LOCK_UNLOCK /\ ~st.ix.updating
             THEN CallSetLock(
                      NoteCall(index_sync([st1 EXCEPT !.ix.updating = TRUE]),
                               "sync", lock_type),
                      Frame("sl_after_sync", lock_type), lock_type)
             ELSE Goto(st1, Frame("sl_fcntl", lock_type))

\* mail_index_set_lock, from its start to the fcntl
SetLockEnter(st, lock_type) ==
    IF st.ix.inconsistent THEN Return(st, FALSE)
    ELSE IF st.ix.lock_type = lock_type THEN Return(st, TRUE)
    ELSE IF lock_type = MAIL_LOCK_EXCLUSIVE
            /\ st.ix.lock_type = MAIL_LOCK_SHARED
    THEN Abort(st)
    ELSE LET st1 ==
                 IF st.ix.lock_type = MAIL_LOCK_EXCLUSIVE
                 THEN mail_index_update_header_changes(
                          [st EXCEPT !.hd.flags = @ \ {MAIL_INDEX_FLAG_FSCK}])
                 ELSE st
         IN  IF lock_type # MAIL_LOCK_UNLOCK
                /\ st.ix.lock_type = MAIL_LOCK_UNLOCK /\ ~st.ix.updating
             THEN CallSetLock(
                      NoteCall(index_sync([st1 EXCEPT !.ix.updating = TRUE]),
                               "sync", lock_type),
                      Frame("sl_after_sync", lock_type), lock_type)
             ELSE Goto(st1, Frame("sl_fcntl", lock_type))

\* mail_index_set_lock, "index is corrupted, rebuild it", after the unlock
\* of a shared lock
SetLockRebuild(st, lock_type, o) ==
    IF ~o.rebuild_ok THEN Return(st, FALSE)
    ELSE LET st1 == mail_index_rebuild_all(st) IN
         CallSetLock(NoteCall(st1, "rebuild", lock_type),
                     Frame("sl_after_rebuild", lock_type), lock_type)

\* mail_index_set_lock from "while holding exclusive lock, keep the FSCK
\* flag on" to its end
SetLockFinish(st, lock_type, o) ==
    LET st1 == IF lock_type = MAIL_LOCK_EXCLUSIVE
               THEN [st EXCEPT !.hd.flags = @ \cup {MAIL_INDEX_FLAG_FSCK}]
               ELSE st
    IN  IF lock_type = MAIL_LOCK_EXCLUSIVE /\ o.io = "msync"
        THEN CallSetLock(st1, Frame("sl_fail", lock_type), MAIL_LOCK_UNLOCK)
        ELSE IF st1.ix.header_set /\ ~st1.ix.updating
           /\ MAIL_INDEX_FLAG_REBUILD \in st1.hd.flags
        THEN LET st2 == [st1 EXCEPT !.ix.updating = TRUE] IN
             IF lock_type = MAIL_LOCK_SHARED
             THEN CallSetLock(st2, Frame("sl_rebuild", lock_type),
                              MAIL_LOCK_UNLOCK)
             ELSE SetLockRebuild(st2, lock_type, o)
        ELSE Return(IF lock_type = MAIL_LOCK_UNLOCK
                    THEN [st1 EXCEPT !.ix.last_lookup = NULL] ELSE st1,
                    TRUE)

\* mail_index_set_lock after a successful fcntl.  When mmap fails,
\* index->header is NULL or points into the region just unmapped, and the
\* set_lock(UNLOCK) that follows reads index->header->flags: the process
\* dies of the fault.
SetLockLocked(st, lock_type, o) ==
    LET old_lock_type == st.ix.lock_type
        st1 == [st EXCEPT
                  !.ix.last_lookup =
                      IF lock_type = MAIL_LOCK_UNLOCK THEN NULL ELSE @,
                  !.ix.lock_type = lock_type]
    IN
    IF lock_type # MAIL_LOCK_UNLOCK /\ st1.ix.dirty_mmap /\ o.io = "mmap"
    THEN Abort(st1)
    ELSE IF lock_type # MAIL_LOCK_UNLOCK
    THEN LET st2 == [st1 EXCEPT !.ix = [mmap_update(@, st.recs)
                                           EXCEPT !.header_set = TRUE],
                                !.ex = mmap_update_extra(st1.ix, @)]
         IN  IF st2.ix.indexid # st2.hd.indexid
             THEN Return([st2 EXCEPT !.ix.inconsistent = TRUE], FALSE)
             ELSE SetLockFinish(st2, lock_type, o)
    ELSE IF old_lock_type = MAIL_LOCK_SHARED
            /\ (st1.hd.flags \cup st1.ix.set_flags # st1.hd.flags
                \/ st1.hd.cache_fields \cup st1.ix.set_cache_fields
                      # st1.hd.cache_fields)
    THEN CallSetLock(
             NoteCall([st1 EXCEPT !.ix.updating = TRUE],
                      "fold", MAIL_LOCK_EXCLUSIVE),
             Frame("sl_fold", lock_type), MAIL_LOCK_EXCLUSIVE)
    ELSE SetLockFinish(st1, lock_type, o)

\* mutant of SetLockFcntl: an error of fcntl is ignored
SetLockFcntl_noerr(st, lock_type, o) ==
    SetLockLocked(IF o.fcntl_ok
                  THEN [st EXCEPT !.fl = MAIL_LOCK_TO_FLOCK(lock_type)]
                  ELSE st,
                  lock_type, o)

\* the fcntl(F_SETLKW) of mail_index_set_lock, once the kernel answers
SetLockFcntl(st, lock_type, o) ==
    IF ~o.fcntl_ok THEN Return(st, FALSE)
    ELSE SetLockLocked([st EXCEPT !.fl = MAIL_LOCK_TO_FLOCK(lock_type)],
                       lock_type, o)

\* mail_index_set_lock, after set_lock(EXCLUSIVE) of "need to update the
\* header" has returned
SetLockFold(st) ==
    LET st1 == IF st.ret THEN mail_index_update_header_changes(st) ELSE st
    IN  Goto([st1 EXCEPT !.ix.updating = FALSE],
             Frame("sl_enter", MAIL_LOCK_UNLOCK))

\* mail_index_close
mail_index_close(st) ==
    [st EXCEPT
       !.fl = F_UNLCK,
       !.ix.set_flags = {},
       !.ix.set_cache_fields = {},
       !.ix.opened = FALSE,
       !.ix.updating = FALSE,
       !.ix.inconsistent = FALSE,
       !.ix.dirty_mmap = TRUE,
       !.ix.lock_type = MAIL_LOCK_UNLOCK,
       !.ix.header_set = FALSE,
       !.ix.fd = FALSE]

\* INT_MAX - 1024 of mail_index_open_init, in the reduced width
UidGuard == UintModulus \div 2 - 1 - UidGuardBand

\* mail_index_open_init, from "if (hdr->next_uid >= INT_MAX-1024)"
OpenInitFinish(st, f) ==
    Return(IF f.hdr.next_uid >= UidGuard
           THEN [st EXCEPT !.ix.set_flags = @ \cup {MAIL_INDEX_FLAG_REBUILD}]
           ELSE st,
           TRUE)

\* mail_index_open_init, the call set_lock(EXCLUSIVE)
OpenInitLock(st, f) ==
    CallSetLock(NoteCall(st, "open_init", MAIL_LOCK_EXCLUSIVE),
                [f EXCEPT !.pc = "oi_after_excl"], MAIL_LOCK_EXCLUSIVE)

\* mutant of OpenInitEnter: a shared lock is not released first
OpenInitEnter_keep(st, f) ==
    IF f.ur /\ f.hdr.last_nonrecent_uid # UDec(f.hdr.next_uid)
    THEN OpenInitLock(st, f)
    ELSE OpenInitFinish(st, f)

\* mail_index_open_init, from its start
OpenInitEnter(st, f) ==
    IF f.ur /\ f.hdr.last_nonrecent_uid # UDec(f.hdr.next_uid)
    THEN IF st.ix.lock_type = MAIL_LOCK_SHARED
         THEN CallSetLock(st, [f EXCEPT !.pc = "oi_after_unlock"],
                          MAIL_LOCK_UNLOCK)
         ELSE OpenInitLock(st, f)
    ELSE OpenInitFinish(st, f)

\* mail_index_open_file after the subsystems are open: the recovery by the
\* flags of hdr, index->sync and the call of mail_index_open_init
OpenFileCascade(st, f, o) ==
    IF ~st.ret THEN Goto(st, [f EXCEPT !.pc = "of_unlock", !.failed = TRUE])
    ELSE IF MAIL_INDEX_FLAG_REBUILD \in f.hdr.flags /\ ~o.rebuild_ok
    THEN Goto(st, [f EXCEPT !.pc = "of_unlock", !.failed = TRUE])
    ELSE LET st1 == index_sync(IF MAIL_INDEX_FLAG_REBUILD \in f.hdr.flags
                               THEN mail_index_rebuild_all(st) ELSE st)
         IN  Push(Goto(st1, [f EXCEPT !.pc = "of_after_init"]),
                  [f EXCEPT !.pc = "oi_enter"])

\* one step of the call process is in
Step(st, o) ==
    LET f == Top(st) IN
    CASE f.pc = "sl_enter" -> SetLockEnter(st, f.lt)
      [] f.pc = "sl_fcntl" -> SetLockFcntl(st, f.lt, o)
      [] f.pc = "sl_after_sync" ->
            Return([st EXCEPT !.ix.updating = FALSE], st.ret)
      [] f.pc = "sl_fail" -> Return(st, FALSE)
      [] f.pc = "sl_fold" -> SetLockFold(st)
      [] f.pc = "sl_rebuild" -> SetLockRebuild(Pop(Push(st, f)), f.lt, o)
      [] f.pc = "sl_after_rebuild" ->
            Return([st EXCEPT !.ix.updating = FALSE], st.ret)
      [] f.pc = "oi_enter" -> OpenInitEnter(st, f)
      [] f.pc = "oi_after_unlock" ->
            IF st.ret THEN OpenInitLock(st, f) ELSE Return(st, FALSE)
      [] f.pc = "oi_after_excl" ->
            IF st.ret
            THEN OpenInitFinish(
                     [st EXCEPT !.hd.last_nonrecent_uid = UDec(st.hd.next_uid)],
                     f)
            ELSE Return(st, FALSE)
      [] f.pc = "of_after_lock" -> OpenFileCascade(st, f, o)
      [] f.pc = "of_after_init" ->
            Goto(st, [f EXCEPT !.pc = "of_unlock", !.failed = ~st.ret])
      [] f.pc = "of_unlock" ->
            CallSetLock([st EXCEPT !.ix.updating = FALSE],
                        [f EXCEPT !.pc = "of_end"], MAIL_LOCK_UNLOCK)
      [] f.pc = "of_end" ->
            IF f.failed \/ ~st.ret
            THEN Return(mail_index_close(st), FALSE)
            ELSE Return([st EXCEPT !.ix.opened = TRUE], TRUE)

\* whether the process waits in fcntl(F_SETLKW) for a lock
AtFcntl(st) ==
    /\ st.stk # <<>>
    /\ Top(st).pc = "sl_fcntl"
    /\ Top(st).lt # MAIL_LOCK_UNLOCK

RECURSIVE Run(_, _)
\* run the call until it returns, aborts or reaches a blocking fcntl
Run(st, o) ==
    IF st.stk = <<>> \/ st.aborted \/ AtFcntl(st) THEN st
    ELSE CHOOSE r \in {Run(s, o) : s \in {Step(st, o)}} : TRUE

\* the outcomes of the system calls and of index->rebuild during one run;
\* io tells whether mmap or msync fails
Outcomes ==
    [fcntl_ok : BOOLEAN, rebuild_ok : BOOLEAN, io : {"ok", "mmap", "msync"}]

\* the state after the run st of process h; an aborted process is dead and
\* the kernel drops its lock
CommitCall(h, st) ==
    /\ header' = st.hd
    /\ records' = st.recs
    /\ hash' = st.hs
    /\ index' = [index EXCEPT ![h] = st.ix]
    /\ flock' = [flock EXCEPT ![h] = IF st.aborted THEN F_UNLCK ELSE st.fl]
    /\ stack' = [stack EXCEPT ![h] = IF st.aborted THEN <<>> ELSE st.stk]
    /\ ret' = [ret EXCEPT ![h] = st.ret]
    /\ excl_call' = st.call
    /\ extra' = st.ex
    /\ crashed' = IF st.aborted THEN crashed \cup {h} ELSE crashed
    /\ UNCHANGED <<nappends, nupdates>>

\* the same, for a call made outside mail_index_open_or_create
Commit(h, st) ==
    /\ CommitCall(h, st)
    /\ UNCHANGED dirVars

\* a caller's mail_index_set_lock(index, lock_type); going from SHARED to
\* EXCLUSIVE is the caller's contract violation
mail_index_set_lock(h, lock_type, o) ==
    /\ h \notin crashed
    /\ index[h].opened
    /\ stack[h] = <<>>
    /\ ~(lock_type = MAIL_LOCK_EXCLUSIVE
         /\ index[h].lock_type = MAIL_LOCK_SHARED)
    /\ Commit(h, Run(Push(StateOf(h), Frame("sl_enter", lock_type)), o))

\* the fcntl(F_SETLKW) process h waits in returns
fcntl_setlkw(h, o) ==
    /\ h \notin crashed
    /\ AtFcntl(StateOf(h))
    /\ o.fcntl_ok =>
          Grantable(flock, h, MAIL_LOCK_TO_FLOCK(Top(StateOf(h)).lt))
    /\ Commit(h, Run(SetLockFcntl(StateOf(h), Top(StateOf(h)).lt, o), o))

\* mail_index_try_lock: one fcntl(F_SETLK), which fails instead of waiting
\* when another process holds a conflicting lock
mail_index_try_lock(h, lock_type, o) ==
    /\ h \notin crashed
    /\ index[h].opened
    /\ stack[h] = <<>>
    /\ IF index[h].lock_type = lock_type
       THEN /\ ret' = [ret EXCEPT ![h] = TRUE]
            /\ UNCHANGED flock
       ELSE IF o.fcntl_ok
               /\ Grantable(flock, h, MAIL_LOCK_TO_FLOCK(lock_type))
       THEN /\ flock' = [flock EXCEPT ![h] = MAIL_LOCK_TO_FLOCK(lock_type)]
            /\ ret' = [ret EXCEPT ![h] = TRUE]
       ELSE /\ ret' = [ret EXCEPT ![h] = FALSE]
            /\ UNCHANGED flock
    /\ UNCHANGED <<header, records, hash, index, crashed, nappends, nupdates,
                   stack, excl_call, extra>>
    /\ UNCHANGED dirVars

\* mail_index_open on an existing compatible index file; the subsystems
\* opened by mail_index_open_file leave the handle in lock state left
mail_index_open_file(h, update_recent, left, o) ==
    LET st == [StateOf(h) EXCEPT
                 !.ix.fd = TRUE,
                 !.ix.indexid = header.indexid,
                 !.ix.dirty_mmap = TRUE,
                 !.ix.updating = TRUE,
                 !.ret = TRUE]
        f == [Frame("of_after_lock", left) EXCEPT
                 !.ur = update_recent, !.hdr = HdrCopy(header)]
    IN  Run(Push(Push(st, f), Frame("sl_enter", left)), o)

\* a caller's mail_index_open(index, update_recent)
mail_index_open(h, update_recent, left, o) ==
    /\ h \notin crashed
    /\ ~index[h].fd
    /\ stack[h] = <<>>
    /\ Commit(h, mail_index_open_file(h, update_recent, left, o))

\* a caller's mail_index_close(index)
mail_index_close_handle(h) ==
    /\ h \notin crashed
    /\ index[h].fd
    /\ stack[h] = <<>>
    /\ Commit(h, mail_index_close(StateOf(h)))

\* mail_index_lookup_field: cached tells the record has the field,
\* datarec_ok that the data file has it too
mail_index_lookup_field(h, field, cached, datarec_ok) ==
    /\ h \notin crashed
    /\ stack[h] = <<>>
    /\ index[h].lock_type # MAIL_LOCK_UNLOCK
    /\ index' = [index EXCEPT ![h] =
          IF ~cached
          THEN IF field \notin header.cache_fields
               THEN [@ EXCEPT !.set_cache_fields = @ \cup {field}]
               ELSE [@ EXCEPT !.set_flags =
                                  @ \cup {MAIL_INDEX_FLAG_CACHE_FIELDS}]
          ELSE IF ~datarec_ok
          THEN [@ EXCEPT !.set_flags = @ \cup {MAIL_INDEX_FLAG_REBUILD}]
          ELSE @]
    /\ UNCHANGED <<header, records, hash, crashed, nappends, nupdates, extra>>
    /\ UNCHANGED lockVars

\* an index of one message, appended by a process that has closed the
\* index since, and that no process has open
ClosedIndex ==
    [OpenedIndex EXCEPT !.opened = FALSE, !.fd = FALSE, !.dirty_mmap = TRUE,
                        !.header_set = FALSE]
InitLock ==
    /\ header = [InitHeader EXCEPT !.next_uid = 2, !.messages_count = 1]
    /\ records = <<[uid |-> 1, msg_flags |-> {}]>>
    /\ hash = {[uid |-> 1, pos |-> HeaderSize]}
    /\ index = [h \in Handles |-> ClosedIndex]
    /\ crashed = {}
    /\ nappends = 0
    /\ nupdates = 0
    /\ flock = [h \in Handles |-> F_UNLCK]
    /\ stack = [h \in Handles |-> <<>>]
    /\ ret = [h \in Handles |-> TRUE]
    /\ excl_call = NoCall
    /\ dir_lock = NULL
    /\ linked = TRUE
    /\ ooc = [h \in Handles |-> "idle"]
    /\ extra = 0

\* a run in which every call succeeds
OkOutcome == [fcntl_ok |-> TRUE, rebuild_ok |-> TRUE, io |-> "ok"]

\* two processes on one index file.  Process 1 opens, locks, asks for
\* fields and closes, and its system calls may fail; process 2 opens the
\* index and competes for the lock.
NextLock ==
    \/ \E l \in MailLockType, o \in Outcomes : mail_index_set_lock(1, l, o)
    \/ \E l \in MailLockType : mail_index_set_lock(2, l, OkOutcome)
    \/ \E o \in Outcomes : fcntl_setlkw(1, o)
    \/ fcntl_setlkw(2, OkOutcome)
    \/ \E ur \in BOOLEAN, l \in MailLockType, o \in Outcomes :
          mail_index_open(1, ur, l, o)
    \/ mail_index_open(2, FALSE, MAIL_LOCK_UNLOCK, OkOutcome)
    \/ mail_index_close_handle(1)
    \/ /\ header.indexid < MaxIndexId
       /\ \E fld \in {FIELD_TYPE_ENVELOPE}, c \in BOOLEAN, ok \in BOOLEAN :
             mail_index_lookup_field(1, fld, c, ok)

SpecLock == InitLock /\ [][NextLock]_vars

\* a handle after mail_index_open, before its first lock: nothing is mapped
UnlockedIndex == [OpenedIndex EXCEPT !.dirty_mmap = TRUE, !.header_set = FALSE]

\* an index of one message that both processes have opened
InitShare ==
    /\ header = [InitHeader EXCEPT !.next_uid = 2, !.messages_count = 1]
    /\ records = <<[uid |-> 1, msg_flags |-> {}]>>
    /\ hash = {[uid |-> 1, pos |-> HeaderSize]}
    /\ index = [h \in Handles |-> UnlockedIndex]
    /\ crashed = {}
    /\ nappends = 0
    /\ nupdates = 0
    /\ flock = [h \in Handles |-> F_UNLCK]
    /\ stack = [h \in Handles |-> <<>>]
    /\ ret = [h \in Handles |-> TRUE]
    /\ excl_call = NoCall
    /\ dir_lock = NULL
    /\ linked = TRUE
    /\ ooc = [h \in Handles |-> "idle"]
    /\ extra = 0

\* two processes that share an open index: both lock it, append to it and
\* look messages up; process 1 also finds the data file corrupted, which
\* leads to a rebuild
NextShare ==
    \/ \E h \in Handles, l \in MailLockType : mail_index_set_lock(h, l, OkOutcome)
    \/ \E h \in Handles : fcntl_setlkw(h, OkOutcome)
    \/ /\ nappends < MaxSharedAppends
       /\ extra = 0
       /\ \E h \in Handles, io \in {"ok", "partial"} :
             mail_index_append(h, {}, io)
    \/ \E h \in Handles, s \in 1..(MaxSharedAppends + 1) :
          mail_index_lookup(h, s, FALSE)
    \/ /\ header.indexid < MaxIndexId
       /\ mail_index_lookup_field(1, FIELD_TYPE_ENVELOPE, TRUE, FALSE)

SpecShare == InitShare /\ [][NextShare]_vars

\* a process that holds a lock calls set_lock(UNLOCK)
Release(h) ==
    /\ index[h].lock_type # MAIL_LOCK_UNLOCK
    /\ mail_index_set_lock(h, MAIL_LOCK_UNLOCK, OkOutcome)

\* two processes that share an open index and lock it; process 1 also finds
\* the data file corrupted, which leads to a rebuild
NextLive ==
    \/ \E h \in Handles, l \in MailLockType : mail_index_set_lock(h, l, OkOutcome)
    \/ \E h \in Handles : fcntl_setlkw(h, OkOutcome)
    \/ /\ header.indexid < MaxIndexId
       /\ mail_index_lookup_field(1, FIELD_TYPE_ENVELOPE, TRUE, FALSE)

\* every process that holds a lock eventually calls set_lock(UNLOCK), and
\* the kernel is fair to the processes that wait in fcntl(F_SETLKW)
SpecLive ==
    /\ InitShare
    /\ [][NextLive]_vars
    /\ \A h \in Handles : WF_vars(Release(h))
    /\ \A h \in Handles : SF_vars(fcntl_setlkw(h, OkOutcome))

\* two processes that share an open index and lock it with set_lock and
\* try_lock; process 1 asks for a field no record has cached
NextTry ==
    \/ \E h \in Handles, l \in MailLockType : mail_index_set_lock(h, l, OkOutcome)
    \/ \E h \in Handles : fcntl_setlkw(h, OkOutcome)
    \/ \E h \in Handles, l \in MailLockType, ok \in BOOLEAN :
          mail_index_try_lock(h, l, [OkOutcome EXCEPT !.fcntl_ok = ok])
    \/ mail_index_lookup_field(1, FIELD_TYPE_ENVELOPE, FALSE, TRUE)

SpecTry == InitShare /\ [][NextTry]_vars

\* ------------------------------------------------------------------------
\* mail_index_open_or_create and mail_index_create
\* ------------------------------------------------------------------------
\* mail_index_init_header: the header mail_index_create writes
mail_index_init_header ==
    [InitHeader EXCEPT !.flags = {MAIL_INDEX_FLAG_REBUILD}]

\* the call process h made in phase of mail_index_open_or_create has returned
OocReturned(h, phase) ==
    /\ h \notin crashed
    /\ ooc[h] = phase
    /\ stack[h] = <<>>

\* mail_index_open_or_create, "first see if it's already there":
\* mail_find_index and mail_index_open_file without the directory lock
OocFirstTry(h, left) ==
    /\ h \notin crashed
    /\ ooc[h] = "idle"
    /\ ~index[h].opened
    /\ ~index[h].fd
    /\ stack[h] = <<>>
    /\ IF linked
       THEN /\ CommitCall(h, mail_index_open_file(h, FALSE, left, OkOutcome))
            /\ ooc' = [ooc EXCEPT ![h] = "first_try"]
       ELSE /\ ooc' = [ooc EXCEPT ![h] = "lock_dir"]
            /\ UNCHANGED <<header, records, hash, index, crashed, nappends,
                           nupdates, flock, stack, ret, excl_call, extra>>
    /\ UNCHANGED <<dir_lock, linked>>

\* the first mail_index_open_file has returned
OocFirstDone(h) ==
    /\ OocReturned(h, "first_try")
    /\ ooc' = [ooc EXCEPT ![h] = IF ret[h] THEN "done" ELSE "lock_dir"]
    /\ UNCHANGED <<header, records, hash, index, crashed, nappends, nupdates,
                   flock, stack, ret, excl_call, dir_lock, linked, extra>>

\* mail_index_lock_dir(EXCLUSIVE) is granted; the second mail_find_index,
\* then mail_index_open_file or mail_index_create up to link(): the temporary
\* file with the new header gets the name of the index
OocLockDir(h, left) ==
    /\ h \notin crashed
    /\ ooc[h] = "lock_dir"
    /\ dir_lock = NULL
    /\ dir_lock' = h
    /\ IF linked
       THEN /\ CommitCall(h, mail_index_open_file(h, FALSE, left, OkOutcome))
            /\ ooc' = [ooc EXCEPT ![h] = "second_try"]
            /\ UNCHANGED linked
       ELSE /\ linked' = TRUE
            /\ header' = mail_index_init_header
            /\ records' = <<>>
            /\ hash' = {}
            /\ index' = [index EXCEPT ![h] =
                  [@ EXCEPT !.fd = TRUE,
                            !.indexid = mail_index_init_header.indexid,
                            !.updating = TRUE,
                            !.dirty_mmap = TRUE]]
            /\ ooc' = [ooc EXCEPT ![h] = "linked"]
            /\ UNCHANGED <<crashed, nappends, nupdates, flock, stack, ret,
                           excl_call, extra>>

\* the second mail_index_open_file has returned.  When it failed,
\* mail_index_create finds the name of the index taken and creates
\* index-<hostname>, a file this model does not follow.
OocSecondDone(h) ==
    /\ OocReturned(h, "second_try")
    /\ dir_lock' = NULL
    /\ ooc' = [ooc EXCEPT ![h] = IF ret[h] THEN "done" ELSE "fallback"]
    /\ UNCHANGED <<header, records, hash, index, crashed, nappends, nupdates,
                   flock, stack, ret, excl_call, linked, extra>>

\* mail_index_create, "lock the index file": set_lock(EXCLUSIVE)
OocCreateLock(h) ==
    /\ OocReturned(h, "linked")
    /\ CommitCall(h, Run(Push(StateOf(h),
                              Frame("sl_enter", MAIL_LOCK_EXCLUSIVE)),
                         OkOutcome))
    /\ ooc' = [ooc EXCEPT ![h] = "create_lock"]
    /\ UNCHANGED <<dir_lock, linked>>

\* mail_index_create, "and unlock the directory"; when set_lock failed,
\* mail_index_create returns and mail_index_open_or_create unlocks it
OocCreateUnlockDir(h) ==
    /\ OocReturned(h, "create_lock")
    /\ dir_lock' = NULL
    /\ index' = [index EXCEPT ![h].updating = IF ret[h] THEN @ ELSE FALSE]
    /\ ooc' = [ooc EXCEPT ![h] = IF ret[h] THEN "create_build" ELSE "failed"]
    /\ UNCHANGED <<header, records, hash, crashed, nappends, nupdates,
                   flock, stack, ret, excl_call, linked, extra>>

\* mail_index_create, "create the data file, build the index and hash" and
\* mail_index_open_init on index->header
OocCreateBuild(h) ==
    /\ OocReturned(h, "create_build")
    /\ LET st == [mail_index_rebuild_all(StateOf(h)) EXCEPT
                    !.ix.updating = FALSE]
           f == [Frame("oi_enter", MAIL_LOCK_UNLOCK) EXCEPT
                    !.hdr = HdrCopy(st.hd)]
       IN  CommitCall(h, Run(Push(st, f), OkOutcome))
    /\ ooc' = [ooc EXCEPT ![h] = "create_init"]
    /\ UNCHANGED <<dir_lock, linked>>

\* mail_index_create, "unlock finally"
OocCreateUnlock(h) ==
    /\ OocReturned(h, "create_init")
    /\ IF ret[h]
       THEN /\ CommitCall(h, Run(Push(StateOf(h),
                                      Frame("sl_enter", MAIL_LOCK_UNLOCK)),
                                 OkOutcome))
            /\ ooc' = [ooc EXCEPT ![h] = "create_unlock"]
       ELSE /\ CommitCall(h, mail_index_close(StateOf(h)))
            /\ ooc' = [ooc EXCEPT ![h] = "failed"]
    /\ UNCHANGED <<dir_lock, linked>>

\* mail_index_create returns and mail_index_open_or_create sets opened
OocCreateDone(h) ==
    /\ OocReturned(h, "create_unlock")
    /\ IF ret[h]
       THEN /\ CommitCall(h, [StateOf(h) EXCEPT !.ix.opened = TRUE])
            /\ ooc' = [ooc EXCEPT ![h] = "done"]
       ELSE /\ CommitCall(h, mail_index_close(StateOf(h)))
            /\ ooc' = [ooc EXCEPT ![h] = "failed"]
    /\ UNCHANGED <<dir_lock, linked>>

\* a directory without an index, and two processes that have opened nothing
InitCreate ==
    /\ header = mail_index_init_header
    /\ records = <<>>
    /\ hash = {}
    /\ index = [h \in Handles |-> ClosedIndex]
    /\ crashed = {}
    /\ nappends = 0
    /\ nupdates = 0
    /\ flock = [h \in Handles |-> F_UNLCK]
    /\ stack = [h \in Handles |-> <<>>]
    /\ ret = [h \in Handles |-> TRUE]
    /\ excl_call = NoCall
    /\ dir_lock = NULL
    /\ linked = FALSE
    /\ ooc = [h \in Handles |-> "idle"]
    /\ extra = 0

\* two processes run mail_index_open_or_create on the directory
NextCreate ==
    \/ \E h \in Handles, l \in MailLockType : OocFirstTry(h, l)
    \/ \E h \in Handles : OocFirstDone(h)
    \/ \E h \in Handles, l \in MailLockType : OocLockDir(h, l)
    \/ \E h \in Handles : OocSecondDone(h)
    \/ \E h \in Handles : OocCreateLock(h)
    \/ \E h \in Handles : OocCreateUnlockDir(h)
    \/ \E h \in Handles : OocCreateBuild(h)
    \/ \E h \in Handles : OocCreateUnlock(h)
    \/ \E h \in Handles : OocCreateDone(h)
    \/ \E h \in Handles : fcntl_setlkw(h, OkOutcome)

SpecCreate == InitCreate /\ [][NextCreate]_vars

\* one process appends and expunges under the exclusive lock, releases and
\* takes the lock again, and closes the index
NextCompress ==
    \/ /\ nappends < MaxAppends
       /\ mail_index_append(1, {}, "ok")
    \/ \E p \in LivePositions(records) : mail_index_expunge(1, p, 0, TRUE)
    \/ \E l \in {MAIL_LOCK_UNLOCK, MAIL_LOCK_EXCLUSIVE} :
          mail_index_set_lock(1, l, OkOutcome)
    \/ fcntl_setlkw(1, OkOutcome)
    \/ mail_index_close_handle(1)

SpecCompress == InitFresh /\ [][NextCompress]_vars

\* the record array: appends of unflagged messages, expunges and lookups
Next ==
    \/ /\ nappends < MaxAppends
       /\ \E io \in {"ok", "lseek", "write"} : mail_index_append(1, {}, io)
    \/ \E p \in LivePositions(records), s \in 0..Len(records),
          ok \in BOOLEAN : mail_index_expunge(1, p, s, ok)
    \/ \E s \in 1..(MaxAppends + 1), fault \in BOOLEAN :
          mail_index_lookup(1, s, fault)

Spec == Init /\ [][Next]_vars

\* the flag counters: appends with any flags, flag updates and expunges
NextFlags ==
    \/ /\ nappends < MaxFlagAppends
       /\ \E f \in MailFlags, io \in {"ok", "lseek", "write"} :
             mail_index_append(1, f, io)
    \/ \E p \in LivePositions(records), s \in 0..Len(records),
          ok \in BOOLEAN : mail_index_expunge(1, p, s, ok)
    \/ /\ nupdates < MaxUpdates
       /\ \E p \in LivePositions(records), f \in MailFlags, ok \in BOOLEAN :
             mail_index_update_flags(1, p, f, ok)

SpecFlags == InitFresh /\ [][NextFlags]_vars

\* the record array when next_uid reaches the ceiling of unsigned int
SpecCeiling == InitCeiling /\ [][Next]_vars

\* ------------------------------------------------------------------------
\* Properties
\* ------------------------------------------------------------------------
LiveRecords == {i \in 1..Len(records) : records[i].uid # 0}

\* C1: messages_count equals the number of records of the file whose uid is
\* not zero, after any appends and expunges.
CountMatch ==
    header.messages_count = Cardinality(LivePositions(records))

\* C1 witness: appends and an expunge have left two live records and a
\* tombstone
CountMatchWitness ==
    /\ Cardinality(LivePositions(records)) = 2
    /\ TombPositions(records) # {}
    /\ header.messages_count = 2

SequenceBijection ==
    \A p \in LivePositions(records) :
       /\ mail_index_lookup_mapped(index[1], header, records,
                                   TrueSeq(records, p)).rec = p
       /\ mail_index_get_sequence(index[1], header, records, p)
              = TrueSeq(records, p)

\* the live record with the smallest uid in first_uid..last_uid, or NULL
SmallestInRange(first_uid, last_uid) ==
    LET in == {p \in LivePositions(records) :
                  /\ RecAt(records, p).uid >= first_uid
                  /\ RecAt(records, p).uid <= last_uid}
    IN  IF in = {} THEN NULL
        ELSE CHOOSE p \in in :
                \A q \in in : RecAt(records, p).uid <= RecAt(records, q).uid

CountersBounded ==
    /\ header.seen_messages_count <= header.messages_count
    /\ header.deleted_messages_count <= header.messages_count

\* C6: every live record whose uid is below first_unseen_uid_lowwater is
\* SEEN.
UnseenLowwater ==
    \A i \in LiveRecords :
       records[i].uid < header.first_unseen_uid_lowwater
          => MAIL_SEEN \in records[i].msg_flags

\* C6 witness: the lowwater was raised above a live record
UnseenLowwaterWitness ==
    /\ nupdates > 0
    /\ \E i \in LiveRecords :
          records[i].uid < header.first_unseen_uid_lowwater
    /\ \E i \in LiveRecords : MAIL_SEEN \notin records[i].msg_flags

\* C7: no live record whose uid is below first_deleted_uid_lowwater is
\* DELETED.
DeletedLowwater ==
    \A i \in LiveRecords :
       records[i].uid < header.first_deleted_uid_lowwater
          => MAIL_DELETED \notin records[i].msg_flags

\* C8: next_uid exceeds the uid of every record present, every append
\* strictly increases next_uid, and an append never assigns uid 0 or a uid
\* that a record already has.
UidMonotone ==
    [][/\ \A i \in 1..Len(records') : records'[i].uid < header'.next_uid
       /\ nappends' # nappends =>
             /\ header'.next_uid > header.next_uid
             /\ header.next_uid # 0
             /\ \A i \in 1..Len(records) : records[i].uid # header.next_uid
      ]_vars

\* C9: no two processes' handles are locked at once when one of them is
\* EXCLUSIVE.
MutualExclusion ==
    \A g \in Handles \ crashed : \A h \in Handles \ (crashed \cup {g}) :
       index[g].lock_type = MAIL_LOCK_EXCLUSIVE
          => index[h].lock_type = MAIL_LOCK_UNLOCK

\* C9 witness: one handle is EXCLUSIVE while the other process waits in
\* fcntl for its lock
MutualExclusionWitness ==
    \E g \in Handles : \E h \in Handles \ {g} :
       /\ index[g].lock_type = MAIL_LOCK_EXCLUSIVE
       /\ AtFcntl(StateOf(h))
       /\ crashed = {}

\* C10: at the internal calls set_lock(EXCLUSIVE), of the pending-flags
\* fold, of the re-entry after a rebuild and of open's update_recent, the
\* handle's lock state is UNLOCK or EXCLUSIVE, never SHARED.
InternalExclusiveCalls ==
    excl_call.site \in {"fold", "rebuild", "open_init"}
       => excl_call.from \in {MAIL_LOCK_UNLOCK, MAIL_LOCK_EXCLUSIVE}

\* C10 witness: the fold has upgraded an unlocked handle whose shared lock
\* was just released, and the upgrade waits for the exclusive lock
InternalExclusiveCallsWitness ==
    /\ excl_call = [site |-> "fold", from |-> MAIL_LOCK_UNLOCK]
    /\ \E h \in Handles :
          /\ AtFcntl(StateOf(h))
          /\ Top(StateOf(h)).lt = MAIL_LOCK_EXCLUSIVE
          /\ Len(stack[h]) > 1
          /\ stack[h][Len(stack[h]) - 1].pc = "sl_fold"

\* C11: while a handle is EXCLUSIVE (from the return of set_lock(EXCLUSIVE)
\* until it leaves EXCLUSIVE) the header has FSCK set, so that a crash of
\* the process then leaves FSCK for the next open_file.
FsckWhileExclusive ==
    \A h \in Handles \ crashed :
       (/\ index[h].lock_type = MAIL_LOCK_EXCLUSIVE
        /\ stack[h] = <<>>
        /\ ~index[h].inconsistent)
          => MAIL_INDEX_FLAG_FSCK \in header.flags

\* C12: a set_lock of an open handle that acquires SHARED or EXCLUSIVE while
\* the header's indexid differs from the handle's returns failure and leaves
\* the handle inconsistent; an inconsistent handle stays inconsistent, and
\* its set_lock calls fail, until it is closed.
InconsistentHandle ==
    [][\A h \in Handles \ crashed' :
          /\ (/\ index[h].fd
              /\ index[h].indexid # header.indexid
              /\ index'[h].lock_type # index[h].lock_type
              /\ index'[h].lock_type # MAIL_LOCK_UNLOCK)
                => (index'[h].inconsistent /\ ~ret'[h])
          /\ (index[h].inconsistent /\ index'[h].fd)
                => (index'[h].inconsistent /\ ~ret'[h])
      ]_vars

\* C12 witness: a handle that locked an index rebuilt since its open is
\* inconsistent and its last set_lock has failed
InconsistentHandleWitness ==
    \E h \in Handles \ crashed :
       /\ index[h].inconsistent
       /\ index[h].indexid # header.indexid
       /\ index[h].lock_type # MAIL_LOCK_UNLOCK
       /\ stack[h] = <<>>
       /\ ~ret[h]

\* C13: an inconsistent handle rejects every operation but close: while it
\* stays inconsistent no lookup goes through it (its mapping and its lookup
\* cache are untouched) and, when it is the handle that holds the exclusive
\* lock, nothing is appended to or changed in the index file.
InconsistentRejects ==
    [][\A h \in Handles \ crashed :
          (index[h].inconsistent /\ index'[h].inconsistent)
             => /\ index'[h] = index[h]
                /\ index[h].lock_type = MAIL_LOCK_EXCLUSIVE
                      => (nappends' = nappends /\ records' = records)
      ]_vars

\* the step in which a set_lock(UNLOCK) of handle h that started from SHARED
\* returns success, at once or after the fold has had the exclusive lock
UnlockedFromShared(h) ==
    /\ h \notin crashed'
    /\ index'[h].fd
    /\ stack'[h] = <<>>
    /\ ret'[h]
    /\ index'[h].lock_type = MAIL_LOCK_UNLOCK
    /\ \/ stack[h] = <<>> /\ index[h].lock_type = MAIL_LOCK_SHARED
       \/ \E i \in 1..Len(stack[h]) : stack[h][i].pc = "sl_fold"

\* C14: after set_lock(UNLOCK) from SHARED returns success, every bit that
\* was pending in set_flags is set in the header flags, every bit that was
\* pending in set_cache_fields is set in the header cache_fields, and both
\* pending sets are empty.
HintsFolded ==
    [][\A h \in Handles :
          UnlockedFromShared(h) =>
             /\ index[h].set_flags \subseteq header'.flags
             /\ index[h].set_cache_fields \subseteq header'.cache_fields
             /\ index'[h].set_flags = {}
             /\ index'[h].set_cache_fields = {}
      ]_vars

\* C14 as amended: after set_lock(UNLOCK) from SHARED returns success, every
\* bit that was pending in set_flags or set_cache_fields is set in the
\* header or still pending on the handle, except a REBUILD bit consumed by
\* the rebuild the same call has run (the index has a new indexid).
HintsKept ==
    [][\A h \in Handles :
          UnlockedFromShared(h) =>
             /\ index[h].set_flags \ {MAIL_INDEX_FLAG_REBUILD}
                   \subseteq header'.flags \cup index'[h].set_flags
             /\ MAIL_INDEX_FLAG_REBUILD \in index[h].set_flags
                   => \/ MAIL_INDEX_FLAG_REBUILD
                            \in header'.flags \cup index'[h].set_flags
                      \/ header'.indexid # header.indexid
             /\ index[h].set_cache_fields
                   \subseteq header'.cache_fields \cup index'[h].set_cache_fields
      ]_vars

\* C14 witness: the fold has written a pending cache field and a pending
\* flag to the header, and the handle is unlocked with nothing pending
HintsKeptWitness ==
    /\ excl_call.site = "fold"
    /\ FIELD_TYPE_ENVELOPE \in header.cache_fields
    /\ MAIL_INDEX_FLAG_CACHE_FIELDS \in header.flags
    /\ \E h \in Handles \ crashed :
          /\ index[h].opened
          /\ index[h].lock_type = MAIL_LOCK_UNLOCK
          /\ stack[h] = <<>>
          /\ ret[h]
          /\ index[h].set_flags = {}
          /\ index[h].set_cache_fields = {}

\* C15: what another process appended before releasing EXCLUSIVE is visible
\* to an open handle once it has acquired SHARED or EXCLUSIVE: its mapping
\* covers the file, and lookup_by_seq and lookup_uid_range return every
\* live record, the appended one included.
AppendVisible ==
    \A b \in Handles \ crashed :
       (/\ index[b].lock_type # MAIL_LOCK_UNLOCK
        /\ stack[b] = <<>>
        /\ ~index[b].inconsistent)
          => LET ix == mmap_update(index[b], records) IN
             /\ ix.mmap_length = FileLength(records)
             /\ \A p \in LivePositions(records) :
                   /\ mail_index_lookup_mapped(ix, header, records,
                                               TrueSeq(records, p)).rec = p
                   /\ mail_index_lookup_uid_range(ix, records, hash,
                                                  RecAt(records, p).uid,
                                                  RecAt(records, p).uid) = p

\* C16: once REBUILD is set in the header or pending in the set_flags of a
\* handle, it is not dropped without a rebuild: after every step it is
\* still in the header or pending on a handle, unless a rebuild has
\* completed (the index has a new indexid).
RebuildKept ==
    [][(\/ MAIL_INDEX_FLAG_REBUILD \in header.flags
        \/ \E h \in Handles \ crashed' :
              MAIL_INDEX_FLAG_REBUILD \in index[h].set_flags)
          => \/ MAIL_INDEX_FLAG_REBUILD \in header'.flags
             \/ \E h \in Handles \ crashed' :
                   MAIL_INDEX_FLAG_REBUILD \in index'[h].set_flags
             \/ header'.indexid # header.indexid
      ]_vars

\* C17: the lock protocol is free of deadlock: when every process that
\* holds a lock eventually calls set_lock(UNLOCK), every set_lock that waits
\* for the lock eventually returns.
BlockingReturns ==
    \A h \in Handles : AtFcntl(StateOf(h)) ~> (stack[h] = <<>>)

\* C18: while the process that has created the index file is between link()
\* and the end of its first rebuild, no other process has the file open.
Creating(h) == ooc[h] \in {"linked", "create_lock", "create_build"}
CreateSerialized ==
    \A h \in Handles : Creating(h) =>
        \A g \in Handles \ {h} : ~index[g].fd

\* C19: seen_messages_count is the number of live records with SEEN and
\* deleted_messages_count the number of live records with DELETED, whatever
\* flags the appends and updates carry.
FlagCountsExact ==
    /\ header.seen_messages_count =
          Cardinality({i \in LiveRecords : MAIL_SEEN \in records[i].msg_flags})
    /\ header.deleted_messages_count =
          Cardinality({i \in LiveRecords :
                          MAIL_DELETED \in records[i].msg_flags})

\* the end of the run of tombstones that starts at position q
RECURSIVE RunEnd(_, _)
RunEnd(recs, q) ==
    IF q \in TombPositions(recs) THEN RunEnd(recs, q + RecordSize) ELSE q
\* the first tombstone of the file
FirstTomb(recs) ==
    CHOOSE q \in TombPositions(recs) : \A r \in TombPositions(recs) : q <= r
\* the record at p is right before or right after the first run of tombstones
Adjacent(recs, p) ==
    \/ p = FirstTomb(recs) - RecordSize
    \/ p = RunEnd(recs, FirstTomb(recs))
\* the tombstones of the file form one run
OneRun(recs) ==
    \A q \in TombPositions(recs) : q < RunEnd(recs, FirstTomb(recs))

\* C20, the request: an expunge sets COMPRESS in set_flags when the file has
\* a hole the expunged record is not adjacent to, and leaves set_flags alone
\* otherwise.
ExpungeRequests ==
    [][\A p \in LivePositions(records) :
          p \notin LivePositions(records') =>
             IF TombPositions(records) # {} /\ ~Adjacent(records, p)
             THEN MAIL_INDEX_FLAG_COMPRESS \in index'[1].set_flags
             ELSE index'[1].set_flags = index[1].set_flags]_vars

\* C20, the flag: when the tombstones do not form one run, COMPRESS is
\* pending on a handle or set in the header, and it is set in the header
\* when no process holds the exclusive lock.
CompressPending ==
    ~OneRun(records) =>
       /\ \/ MAIL_INDEX_FLAG_COMPRESS \in header.flags
          \/ \E h \in Handles : MAIL_INDEX_FLAG_COMPRESS \in index[h].set_flags
       /\ (\A h \in Handles : flock[h] # F_WRLCK) =>
             MAIL_INDEX_FLAG_COMPRESS \in header.flags

\* C20: an expunge requests COMPRESS exactly when the record is not adjacent
\* to the existing hole, and a file with more than one run of tombstones has
\* COMPRESS pending on a handle or set in the header.
CompressKept == ExpungeRequests /\ []CompressPending

\* C21, the mapping: once the last live record is expunged and the file is
\* cut to the header, the handle that holds the lock maps the header only or
\* has dirty_mmap set.
TruncateMapped ==
    \A h \in Handles :
       (index[h].lock_type = MAIL_LOCK_EXCLUSIVE /\ records = <<>>) =>
          (index[h].dirty_mmap \/ index[h].mmap_length = HeaderSize)

\* C21, the lookup: a lookup in the empty file kills no process and does not
\* mark the index corrupted.
TruncateLookup ==
    [][(records = <<>> /\ records' = <<>> /\ header' = header) =>
          /\ crashed' = crashed
          /\ \A h \in Handles :
                index'[h].set_flags = index[h].set_flags]_vars

\* C21: after the expunge of the last live record the mapping is refreshed
\* before the next read, and lookup_by_seq(1) returns none without marking
\* the index corrupted.
TruncateClean == []TruncateMapped /\ TruncateLookup

\* C22: lookup_by_seq(s) returns none for every s above messages_count.
LookupBeyond ==
    \A s \in (header.messages_count + 1)..(MaxAppends + 1) :
       mail_index_lookup_mapped(mmap_update(index[1], records), header,
                                records, s).rec = NULL

\* C23: set_lock rebuilds the index only in a call that asked for SHARED or
\* EXCLUSIVE: the step in which a handle rebuilds leaves it in such a call,
\* about to take the lock again.
UnlockNoRebuild ==
    [][\A h \in Handles :
          index'[h].indexid # index[h].indexid =>
             /\ stack'[h] # <<>>
             /\ stack'[h][1].lt # MAIL_LOCK_UNLOCK]_vars

\* C24: when the cached last_lookup is a live record, last_lookup_seq is its
\* true sequence number.
CacheCoherent ==
    \A h \in Handles :
       (index[h].last_lookup # NULL
        /\ index[h].last_lookup \in LivePositions(records)) =>
          index[h].last_lookup_seq = TrueSeq(records, index[h].last_lookup)

\* C25: the size of the index file changes only in a step of a handle whose
\* lock state is EXCLUSIVE before or after the step.
SizeUnderExclusive ==
    [][FileLength(records') + extra' # FileLength(records) + extra =>
          \E h \in Handles :
             \/ index[h].lock_type = MAIL_LOCK_EXCLUSIVE
             \/ index'[h].lock_type = MAIL_LOCK_EXCLUSIVE]_vars

\* a step of a mutating operation of handle h that returns failure: an
\* append whose lseek or write_full fails, an expunge or a flag update whose
\* modification-log append fails
FailedMutation(h) ==
    \/ \E f \in MailFlags, io \in {"lseek", "write", "partial"} :
          mail_index_append(h, f, io)
    \/ \E p \in LivePositions(records), s \in 1..Len(records) :
          mail_index_expunge(h, p, s, FALSE)
    \/ \E p \in LivePositions(records), f \in MailFlags :
          mail_index_update_flags(h, p, f, FALSE)

\* C26: a mutating operation that returns failure leaves the header, the
\* records and the hash as they were before the call.
FailureUnchanged ==
    [][FailedMutation(1) =>
          /\ header' = header
          /\ records' = records
          /\ hash' = hash]_vars

\* a step in which a caller's set_lock(l) of process h, with l SHARED or
\* EXCLUSIVE, returns r: at once, or when the fcntl it waited in returns
SetLockReturns(h, r) ==
    /\ \/ \E l \in {MAIL_LOCK_SHARED, MAIL_LOCK_EXCLUSIVE}, o \in Outcomes :
             mail_index_set_lock(h, l, o)
       \/ /\ stack[h] # <<>>
          /\ stack[h][1].pc \in {"sl_enter", "sl_fcntl", "sl_after_sync",
                                 "sl_fail", "sl_fold", "sl_rebuild",
                                 "sl_after_rebuild"}
          /\ stack[h][1].lt # MAIL_LOCK_UNLOCK
          /\ \E o \in Outcomes : fcntl_setlkw(h, o)
    /\ stack'[h] = <<>>
    /\ h \notin crashed'
    /\ ret'[h] = r

\* C27: when set_lock(SHARED) or set_lock(EXCLUSIVE) of a handle that held
\* no lock returns failure, the handle holds no lock on the file, its lock
\* state is UNLOCK and its updating guard is cleared.
FailedLockReleased ==
    [][\A h \in Handles :
          flock[h] = F_UNLCK /\ SetLockReturns(h, FALSE) =>
             /\ flock'[h] = F_UNLCK
             /\ index'[h].lock_type = MAIL_LOCK_UNLOCK
             /\ ~index'[h].updating]_vars

\* C28: after try_lock(l) returns success the handle's lock state is l.
TryLockRecorded ==
    [][\A h \in Handles, l \in MailLockType :
          (\E o \in Outcomes : mail_index_try_lock(h, l, o)) /\ ret'[h] =>
             index'[h].lock_type = l]_vars

\* C29: no step removes a bit from the header's cache_fields, or from the
\* header's flags other than FSCK.
PromisesKept ==
    [][/\ header.cache_fields \subseteq header'.cache_fields
       /\ header.flags \ {MAIL_INDEX_FLAG_FSCK} \subseteq header'.flags]_vars

====
